---- MODULE Spec2Model ----
(***************************************************************************)
(* A model of StretchyPath (src/src/paper/StretchyPath.ts): a paper.Group  *)
(* that owns a hidden source artwork, an editable closed outline with four *)
(* tagged corner segments, and the display artwork obtained by projecting  *)
(* the source between the outline's top side and reversed bottom side.     *)
(*                                                                         *)
(* Points are pairs <<x, y>> of integers.  Points of the display artwork   *)
(* are results of divisions, so they are kept multiplied by Scale.         *)
(***************************************************************************)
EXTENDS Integers, Sequences, FiniteSets, TLC

VARIABLES
    sourcePath,     \* the source artwork: the sequence of its anchor points
    displayPath,    \* the display artwork: [id, pts], pts multiplied by Scale
    corners,        \* the four corner segments (references: segment ids)
    outline,        \* the closed outline: sequence of segments [id, point]
    midpointGroup,  \* [gen, visible, handles]: handles = segment1 ids of the curves
    segmentGroup,   \* [visible, handles]: handles = ids of the segments
    strokeColor,    \* outline.strokeColor
    children,       \* the children of the StretchyPath group, in order
    lastOp,         \* the handler that ran last
    result,         \* how the arrangement pass of that handler ended
    log             \* the effects of that handler, in the order of its statements

vars == << sourcePath, displayPath, corners, outline, midpointGroup,
           segmentGroup, strokeColor, children, lastOp, result, log >>

----------------------------------------------------------------------------
(* Bounds of the model *)

\* the number of vertices that midpoint handles may add to the outline
MaxExtra == 1

----------------------------------------------------------------------------
(* Inputs *)

\* the anchor points of the source artwork handed to the constructor:
\* a rectangle contour and a point in its middle
SourcePoints == << <<0, 0>>, <<6, 0>>, <<6, 8>>, <<0, 8>>, <<3, 4>> >>

\* the position a dragged handle can be dropped at, besides the position
\* its segment had at construction: the middle of the source bounds.  The
\* distances between it and the corners of the bounds are whole numbers,
\* which keeps arc lengths exact.
Grid == { <<3, 4>> }

\* the common denominator of the display points
Scale == 720 * 8

Null == <<>>

----------------------------------------------------------------------------
(* Sequences and points *)

\* Body of a value that is worked out once
With(value, Body(_)) == CHOOSE r \in { Body(x) : x \in { value } } : TRUE

Min(S) == CHOOSE m \in S : \A n \in S : m <= n
Max(S) == CHOOSE m \in S : \A n \in S : m >= n

Range(s) == { s[i] : i \in 1..Len(s) }

Reverse(s) == [ i \in 1..Len(s) |-> s[Len(s) + 1 - i] ]

InsertAt(s, i, e) == SubSeq(s, 1, i - 1) \o << e >> \o SubSeq(s, i, Len(s))

ISqrt(n) == CHOOSE r \in 0..n : r * r = n

Dist2(p, q) == (p[1] - q[1]) * (p[1] - q[1]) + (p[2] - q[2]) * (p[2] - q[2])

\* the rectangle around the anchor points of a path
Bounds(path) ==
    LET xs == { path[i][1] : i \in 1..Len(path) }
        ys == { path[i][2] : i \in 1..Len(path) }
    IN  [ x |-> Min(xs), y |-> Min(ys),
          width |-> Max(xs) - Min(xs), height |-> Max(ys) - Min(ys) ]

\* PaperHelpers.corners(rect): topLeft, topRight, bottomRight, bottomLeft
Corners(rect) ==
    << << rect.x, rect.y >>,
       << rect.x + rect.width, rect.y >>,
       << rect.x + rect.width, rect.y + rect.height >>,
       << rect.x, rect.y + rect.height >> >>

\* the positions a segment of the outline can have
Positions == Grid \cup Range(Corners(Bounds(SourcePoints)))

Distances == [ p \in Positions, q \in Positions |-> ISqrt(Dist2(p, q)) ]

\* paper.Point.getDistance
Dist(p, q) == Distances[p, q]

\* paper.Point.isClose(point, tolerance): getDistance(point) <= tolerance.
\* tolerance is Numerical.EPSILON (1e-12); between points with whole
\* coordinates the distance is 0 or at least 1.
IsClose(p, q) == Dist(p, q) <= 0

\* the segment of the outline a reference stands for
SegmentOf(segs, id) == segs[CHOOSE i \in 1..Len(segs) : segs[i].id = id]

IndexOf(segs, id) == CHOOSE i \in 1..Len(segs) : segs[i].id = id

Ids(segs) == { segs[i].id : i \in 1..Len(segs) }

----------------------------------------------------------------------------
(* getOutlineSides *)

\* The loop of getOutlineSides over segmentList from its i-th element on.
\* q is the number of corner points taken from the queue so far minus one:
\* the target corner is cornerPoints[q], and it is undefined when q > 4.
RECURSIVE WalkSegmentsNotReset(_, _, _, _, _, _)
\* the walk with a segmentGroup that is not started anew after a side
WalkSegmentsNotReset(segmentList, cornerPoints, i, sides, group, q) ==
    IF i > Len(segmentList)
    THEN [ status |-> IF Len(sides) # 4 THEN "failed to get sides" ELSE "ok",
           sides |-> sides ]
    ELSE LET segment == segmentList[i]
             grown == Append(group, segment)
         IN  IF q > Len(cornerPoints)
             THEN [ status |-> "TypeError", sides |-> sides ]
             ELSE IF IsClose(cornerPoints[q], segment.point)
                  THEN WalkSegmentsNotReset(segmentList, cornerPoints, i + 1,
                                            Append(sides, grown), grown, q + 1)
                  ELSE WalkSegmentsNotReset(segmentList, cornerPoints, i + 1,
                                            sides, grown, q)

RECURSIVE WalkSegmentsAnyCorner(_, _, _, _, _, _)
\* the walk that closes a side at a vertex close to any corner still queued
WalkSegmentsAnyCorner(segmentList, cornerPoints, i, sides, group, q) ==
    IF i > Len(segmentList)
    THEN [ status |-> IF Len(sides) # 4 THEN "failed to get sides" ELSE "ok",
           sides |-> sides ]
    ELSE LET segment == segmentList[i]
             grown == Append(group, segment)
             hits == { j \in q..Len(cornerPoints) :
                           IsClose(cornerPoints[j], segment.point) }
         IN  IF q > Len(cornerPoints)
             THEN [ status |-> "TypeError", sides |-> sides ]
             ELSE IF hits # {}
                  THEN WalkSegmentsAnyCorner(segmentList, cornerPoints, i + 1,
                                             Append(sides, grown), << segment >>,
                                             Min(hits) + 1)
                  ELSE WalkSegmentsAnyCorner(segmentList, cornerPoints, i + 1,
                                             sides, grown, q)

RECURSIVE WalkSegments(_, _, _, _, _, _)
WalkSegments(segmentList, cornerPoints, i, sides, group, q) ==
    IF i > Len(segmentList)
    THEN [ status |-> IF Len(sides) # 4 THEN "failed to get sides" ELSE "ok",
           sides |-> sides ]
    ELSE LET segment == segmentList[i]
             grown == Append(group, segment)
         IN  IF q > Len(cornerPoints)
             THEN [ status |-> "TypeError", sides |-> sides ]
             ELSE IF IsClose(cornerPoints[q], segment.point)
                  THEN WalkSegments(segmentList, cornerPoints, i + 1,
                                    Append(sides, grown), << segment >>, q + 1)
                  ELSE WalkSegments(segmentList, cornerPoints, i + 1,
                                    sides, grown, q)

\* getOutlineSides with a walk that stops at the last vertex of the outline
\* and never comes back to segment 0
GetOutlineSidesNoWrap(segs, crn) ==
    LET points == [ k \in 1..Len(crn) |-> SegmentOf(segs, crn[k]).point ]
        cornerPoints == Tail(points) \o << Head(points) >>
    IN  WalkSegments(segs, cornerPoints, 1, << >>, << >>, 1)

\* getOutlineSides: the sides are new paths holding copies of the segments
GetOutlineSides(segs, crn) ==
    LET points == [ k \in 1..Len(crn) |-> SegmentOf(segs, crn[k]).point ]
        cornerPoints == Tail(points) \o << Head(points) >>
        segmentList == Append(segs, segs[1])
    IN  WalkSegments(segmentList, cornerPoints, 1, << >>, << >>, 1)

----------------------------------------------------------------------------
(* The projection between the top side and the reversed bottom side *)

Points(side) == [ i \in 1..Len(side) |-> side[i].point ]

RECURSIVE PathLength(_)
PathLength(pts) ==
    IF Len(pts) < 2 THEN 0
    ELSE Dist(pts[1], pts[2]) + PathLength(Tail(pts))

Scaled(p) == << Scale * p[1], Scale * p[2] >>

\* paper.Path.getPointAt(offset) on an open path of straight curves, for
\* the offset num / den: the point on the first curve that ends beyond the
\* offset; the end of the last curve when no curve ends beyond it and the
\* offset is within the length; no point for a path without curves.
RECURSIVE PointOnCurves(_, _, _, _)
PointOnCurves(pts, num, den, start) ==
    IF Len(pts) < 2 THEN Null
    ELSE LET len == Dist(pts[1], pts[2])
             d == num - den * start
         IN  IF den * (start + len) > num
             THEN << Scale * pts[1][1]
                       + (Scale * d * (pts[2][1] - pts[1][1])) \div (den * len),
                     Scale * pts[1][2]
                       + (Scale * d * (pts[2][2] - pts[1][2])) \div (den * len) >>
             ELSE IF Len(pts) = 2
                  THEN IF num <= den * (start + len) THEN Scaled(pts[2]) ELSE Null
                  ELSE PointOnCurves(Tail(pts), num, den, start + len)

GetPointAt(pts, num, den) == PointOnCurves(pts, num, den, 0)

\* PaperHelpers.sandwichPathProjection(top, bottom) at the unit point
\* << ux / w, uy / h >>:
\*   topPoint + (bottomPoint - topPoint) * unit.y, with
\*   topPoint = top.getPointAt(unit.x * top.length), bottomPoint likewise
SandwichPathProjection(top, bottom, ux, w, uy, h) ==
    With(GetPointAt(top, ux * PathLength(top), w), LAMBDA topPoint :
    With(GetPointAt(bottom, ux * PathLength(bottom), w), LAMBDA bottomPoint :
        IF topPoint = Null \/ bottomPoint = Null THEN Null
        ELSE << topPoint[1] + ((bottomPoint[1] - topPoint[1]) * uy) \div h,
                topPoint[2] + ((bottomPoint[2] - topPoint[2]) * uy) \div h >>))

\* the sides the projection is built from: sides[0] and sides[2] reversed
TopOf(sides) == Points(sides[1])

\* sides[2] as the walk left it
BottomOfNotReversed(sides) == Points(sides[3])

BottomOf(sides) == Reverse(Points(sides[3]))

\* the projection built with the bottom side first and the top side second
PointTransformBottomFirst(bounds, sides, point) ==
    With(BottomOf(sides), LAMBDA top :
    With(TopOf(sides), LAMBDA bottom :
        SandwichPathProjection(top, bottom,
                               point[1] - bounds.x, bounds.width,
                               point[2] - bounds.y, bounds.height)))

\* the closure handed to PathTransform: the point relative to the origin
\* of the source bounds, divided by their size, then projected
PointTransform(bounds, sides, point) ==
    With(TopOf(sides), LAMBDA top :
    With(BottomOf(sides), LAMBDA bottom :
        SandwichPathProjection(top, bottom,
                               point[1] - bounds.x, bounds.width,
                               point[2] - bounds.y, bounds.height)))

\* PathTransform.transformPathItem: every anchor point is replaced by its image
TransformPathItem(bounds, sides, path) ==
    With(bounds, LAMBDA rect :
        [ i \in 1..Len(path) |-> PointTransform(rect, sides, path[i]) ])

----------------------------------------------------------------------------
(* The children of the group *)

Item(kind, ref) == [ kind |-> kind, ref |-> ref ]

\* paper.Item.remove
RemoveChild(kids, item) == SelectSeq(kids, LAMBDA e : e # item)

\* paper.Item.insertChild(index, item), index counted from 0
InsertChild(kids, index, item) ==
    LET at == IF index > Len(kids) THEN Len(kids) ELSE index
    IN  SubSeq(kids, 1, at) \o << item >> \o SubSeq(kids, at + 1, Len(kids))

AddChild(kids, item) == Append(kids, item)

\* a reference that no live object of the kind holds
Fresh(ref) == IF ref = 0 THEN 1 ELSE 0

NoDisplay == [ id |-> -1, pts |-> << >> ]

NoGroup == [ gen |-> -1, visible |-> FALSE, handles |-> {} ]

----------------------------------------------------------------------------
(* arrangePath, updateMidpiontMarkers, arrangeContents *)

\* a pass that ended in a throw: nothing but the log has changed
Thrown(src, disp, kids, status, steps) ==
    [ sourcePath |-> src, displayPath |-> disp, children |-> kids,
      result |-> status, log |-> Append(steps, "throw") ]

\* the steps of arrangePath up to and including transformPathItem
BuildSteps == << "getOutlineSides", "removeSides", "clone", "transform" >>

\* the old artwork stays among the children
ReplaceDisplayKeepingOld(disp, kids, newPath) ==
    [ displayPath |-> newPath,
      children |-> InsertChild(kids, 1, Item("displayPath", newPath.id)),
      log |-> << "insertDisplay" >> ]

\* the end of arrangePath: the old display artwork, if there is one, is
\* removed, and newPath becomes the display artwork and child 1 of the group
ReplaceDisplay(disp, kids, newPath) ==
    [ displayPath |-> newPath,
      children |-> InsertChild(IF disp # NoDisplay
                               THEN RemoveChild(kids, Item("displayPath", disp.id))
                               ELSE kids,
                               1, Item("displayPath", newPath.id)),
      log |-> (IF disp # NoDisplay THEN << "removeDisplay" >> ELSE << >>)
              \o << "insertDisplay" >> ]

\* the image of the source artwork between the sides, made into a new
\* artwork object and put in place, or no artwork when a point has no image
Projected(src, disp, kids, sides) ==
    With(TransformPathItem(Bounds(src), sides, src), LAMBDA pts :
        IF \E i \in 1..Len(pts) : pts[i] = Null
        THEN Thrown(src, disp, kids, "no projected point", BuildSteps)
        ELSE With(ReplaceDisplay(disp, kids,
                                 [ id |-> Fresh(disp.id), pts |-> pts ]),
                  LAMBDA placed :
                      [ sourcePath |-> src,
                        displayPath |-> placed.displayPath,
                        children |-> placed.children,
                        result |-> "ok",
                        log |-> BuildSteps \o placed.log ]))

\* the display artwork is taken out before the sides are asked for
ArrangePathRemovingFirst(src, disp, segs, crn, kids) ==
    With(GetOutlineSides(segs, crn), LAMBDA got :
        IF got.status # "ok"
        THEN Thrown(src, disp, RemoveChild(kids, Item("displayPath", disp.id)),
                    got.status, << "getOutlineSides" >>)
        ELSE Projected(src, disp, kids, got.sides))

\* the source artwork itself is transformed, not a clone of it
ArrangePathInPlace(src, disp, segs, crn, kids) ==
    With(GetOutlineSides(segs, crn), LAMBDA got :
        IF got.status # "ok"
        THEN Thrown(src, disp, kids, got.status, << "getOutlineSides" >>)
        ELSE With(Projected(src, disp, kids, got.sides), LAMBDA pass :
                 IF pass.result # "ok" THEN pass
                 ELSE [ pass EXCEPT !.sourcePath =
                          [ i \in 1..Len(src) |->
                              << pass.displayPath.pts[i][1] \div Scale,
                                 pass.displayPath.pts[i][2] \div Scale >> ] ]))

\* arrangePath: a throw of getOutlineSides ends the pass before anything
\* is touched; otherwise a clone of the source artwork is transformed
ArrangePath(src, disp, segs, crn, kids) ==
    With(GetOutlineSides(segs, crn), LAMBDA got :
        IF got.status # "ok"
        THEN Thrown(src, disp, kids, got.status, << "getOutlineSides" >>)
        ELSE Projected(src, disp, kids, got.sides))

\* the curves of the closed outline that get a CurveSplitterHandle:
\* all but those whose segment1 is corners[1] or corners[3]
SplittableCurves(segs, crn) ==
    { segs[i].id : i \in 1..Len(segs) } \ { crn[2], crn[4] }

\* the old midpoint group stays among the children
UpdateMidpiontMarkersKeepingOld(segs, crn, group, kids) ==
    [ midpointGroup |-> [ gen |-> Fresh(group.gen), visible |-> TRUE,
                          handles |-> SplittableCurves(segs, crn) ],
      children |-> AddChild(kids, Item("midpointGroup", Fresh(group.gen))) ]

\* updateMidpiontMarkers: the midpoint group is removed and built anew
UpdateMidpiontMarkers(segs, crn, group, kids) ==
    LET removed == IF group # NoGroup
                   THEN RemoveChild(kids, Item("midpointGroup", group.gen))
                   ELSE kids
        gen == Fresh(group.gen)
    IN  [ midpointGroup |-> [ gen |-> gen, visible |-> TRUE,
                              handles |-> SplittableCurves(segs, crn) ],
          children |-> AddChild(removed, Item("midpointGroup", gen)) ]

ArrangeContents(src, disp, segs, crn, group, kids) ==
    With(UpdateMidpiontMarkers(segs, crn, group, kids), LAMBDA markers :
    With(ArrangePath(src, disp, segs, crn, markers.children), LAMBDA pass :
        [ midpointGroup |-> markers.midpointGroup,
          displayPath |-> pass.displayPath,
          children |-> pass.children,
          sourcePath |-> pass.sourcePath,
          result |-> pass.result,
          log |-> << "updateMidpiontMarkers" >> \o pass.log ]))

----------------------------------------------------------------------------
(* Construction *)

\* createOutline: a closed path through the corners of the source bounds;
\* the corners are its segments
CreateOutline(src) ==
    LET pts == Corners(Bounds(src))
    IN  [ i \in 1..Len(pts) |-> [ id |-> i, point |-> pts[i] ] ]

CornersOf(segs) == [ i \in 1..Len(segs) |-> segs[i].id ]

\* createSegmentMarkers: a SegmentHandle for every segment of the outline
CreateSegmentMarkers(segs) == [ visible |-> TRUE, handles |-> Ids(segs) ]

\* the constructor up to and including arrangeContents()
Constructed(src) ==
    With(CreateOutline(src), LAMBDA segs :
    With(UpdateMidpiontMarkers(segs, CornersOf(segs), NoGroup,
                               AddChild(AddChild(<< >>, Item("outline", 0)),
                                        Item("segmentGroup", 0))),
         LAMBDA markers :
             ArrangeContents(src, NoDisplay, segs, CornersOf(segs),
                             markers.midpointGroup, markers.children)
             @@ [ corners |-> CornersOf(segs),
                  segmentGroup |-> CreateSegmentMarkers(segs) ]))

Init ==
    \E made \in { Constructed(SourcePoints) } :
        /\ sourcePath = made.sourcePath
        /\ outline = CreateOutline(SourcePoints)
        /\ corners = made.corners
        /\ displayPath = made.displayPath
        /\ children = made.children
        \* setEditElementsVisibility(false)
        /\ segmentGroup = [ made.segmentGroup EXCEPT !.visible = FALSE ]
        /\ midpointGroup = [ made.midpointGroup EXCEPT !.visible = FALSE ]
        /\ strokeColor = "null"
        /\ lastOp = "constructor"
        /\ result = made.result
        /\ log = made.log \o << "setEditElementsVisibility" >>

----------------------------------------------------------------------------
(* Handlers *)

\* the segments that have a SegmentHandle: those of segmentGroup and those
\* whose handle was added to the group itself after a split
SegmentHandles ==
    segmentGroup.handles
        \cup { children[i].ref : i \in { j \in 1..Len(children) :
                                         children[j].kind = "SegmentHandle" } }

\* SegmentHandle: the drag moves the point of its segment
MovePoint(segs, id, p) ==
    [ i \in 1..Len(segs) |->
        IF segs[i].id = id THEN [ segs[i] EXCEPT !.point = p ] ELSE segs[i] ]

\* CurveSplitterHandle: the drag puts a new segment into its curve,
\* that is after the curve's segment1
SplitCurve(segs, segment1, newId, p) ==
    InsertAt(segs, IndexOf(segs, segment1) + 1, [ id |-> newId, point |-> p ])

\* where the handle of segment id can be dropped: on Grid, or back where
\* the segment was at construction
DropPoints(id) ==
    Grid \cup (IF id \in Ids(CreateOutline(sourcePath))
               THEN { SegmentOf(CreateOutline(sourcePath), id).point }
               ELSE {})

\* the corners are tagged anew from the segments of the outline
ArrangedRetagging(op, segs, group, kids, before) ==
    \E pass \in { ArrangeContents(sourcePath, displayPath, segs, CornersOf(segs),
                                  group, kids) } :
        /\ outline' = segs
        /\ corners' = CornersOf(segs)
        /\ sourcePath' = pass.sourcePath
        /\ midpointGroup' = pass.midpointGroup
        /\ displayPath' = pass.displayPath
        /\ children' = pass.children
        /\ lastOp' = op
        /\ result' = pass.result
        /\ log' = before \o pass.log
        /\ UNCHANGED << segmentGroup, strokeColor >>

\* arrangeContents() in a handler: op is the handler, segs the outline and
\* kids the children it has made, before the steps it has taken
Arranged(op, segs, group, kids, before) ==
    \E pass \in { ArrangeContents(sourcePath, displayPath, segs, corners,
                                  group, kids) } :
        /\ outline' = segs
        /\ sourcePath' = pass.sourcePath
        /\ midpointGroup' = pass.midpointGroup
        /\ displayPath' = pass.displayPath
        /\ children' = pass.children
        /\ lastOp' = op
        /\ result' = pass.result
        /\ log' = before \o pass.log
        /\ UNCHANGED << corners, segmentGroup, strokeColor >>

\* the handles are shown or hidden and the contents arranged again
SetEditElementsVisibilityArranging(value) ==
    \E pass \in { ArrangeContents(sourcePath, displayPath, outline, corners,
                                  midpointGroup, children) } :
        /\ segmentGroup' = [ segmentGroup EXCEPT !.visible = value ]
        /\ midpointGroup' = [ pass.midpointGroup EXCEPT !.visible = value ]
        /\ strokeColor' = IF value THEN "lightgray" ELSE "null"
        /\ displayPath' = pass.displayPath
        /\ children' = pass.children
        /\ lastOp' = "setEditElementsVisibility"
        /\ result' = "none"
        /\ log' = << "setEditElementsVisibility" >>
        /\ UNCHANGED << sourcePath, corners, outline >>

\* setEditElementsVisibility(value): onOverStart (true), onOverEnd (false)
SetEditElementsVisibility(value) ==
    /\ segmentGroup' = [ segmentGroup EXCEPT !.visible = value ]
    /\ midpointGroup' = [ midpointGroup EXCEPT !.visible = value ]
    /\ strokeColor' = IF value THEN "lightgray" ELSE "null"
    /\ lastOp' = "setEditElementsVisibility"
    /\ result' = "none"
    /\ log' = << "setEditElementsVisibility" >>
    /\ UNCHANGED << sourcePath, displayPath, corners, outline, children >>

\* arrangeContents() called from outside
ArrangeContentsCall ==
    Arranged("arrangeContents", outline, midpointGroup, children, << >>)

\* handle.onChangeComplete of the SegmentHandle of segment id, dropped at p
OnChangeComplete(id, p) ==
    /\ id \in SegmentHandles
    /\ p \in DropPoints(id)
    /\ Arranged("onChangeComplete", MovePoint(outline, id, p),
                midpointGroup, children, << "movePoint" >>)

\* handle.onDragEnd of the CurveSplitterHandle of the curve that starts at
\* segment1, with its new segment at p
OnDragEnd(segment1, p) ==
    /\ segment1 \in midpointGroup.handles
    /\ Len(outline) < 4 + MaxExtra
    /\ LET newId == Len(outline) + 1
       IN  Arranged("onDragEnd",
                    SplitCurve(outline, segment1, newId, p),
                    [ midpointGroup EXCEPT !.handles = @ \ { segment1 } ],
                    AddChild(children, Item("SegmentHandle", newId)),
                    << "newSegmentHandle", "removeHandle" >>)

----------------------------------------------------------------------------
(* The handlers statement by statement, and the events that start them *)

VARIABLES
    pending,    \* the events of the handles that wait to be handled, in order
    running     \* the call stack: frames [op, pc], pc the next statement of op

passVars == << pending, running >>

\* the number of events that may wait
MaxPending == 3

\* the callbacks of a StretchyPath and the call from outside
Triggers ==
    { "onOverStart", "onOverEnd", "onChangeComplete", "onDragEnd",
      "arrangeContents" }

\* arrangeContents(): updateMidpiontMarkers(), then the statements of
\* arrangePath()
PassStatements ==
    << "updateMidpiontMarkers" >> \o BuildSteps
        \o << "removeDisplay", "insertDisplay" >>

\* the statements of a handler
Statements(op) ==
    CASE op \in { "onOverStart", "onOverEnd" } -> << "setEditElementsVisibility" >>
      [] op = "onDragEnd" -> << "newSegmentHandle", "removeHandle" >> \o PassStatements
      [] OTHER -> PassStatements

\* the statements that can throw: getOutlineSides, and the projection
\* of a point
Throwing == { "getOutlineSides", "transform" }

Statement(frame) == Statements(frame.op)[frame.pc]

PassInit ==
    /\ pending = << >>
    /\ running = << >>

\* the user ends a drag, moves over the path, or other code calls
\* arrangeContents: the event waits for its turn
Deliver(op) ==
    /\ Len(pending) < MaxPending
    /\ pending' = Append(pending, op)
    /\ UNCHANGED running

\* the oldest waiting event gets its handler called, when no handler runs
Dispatch ==
    /\ running = << >>
    /\ pending # << >>
    /\ running' = << [ op |-> Head(pending), pc |-> 1 ] >>
    /\ pending' = Tail(pending)

\* a statement that calls the handler of the oldest waiting event itself
StepReentering ==
    /\ running # << >>
    /\ LET frame == running[Len(running)]
           rest == SubSeq(running, 1, Len(running) - 1)
           after == IF frame.pc = Len(Statements(frame.op))
                    THEN rest
                    ELSE Append(rest, [ frame EXCEPT !.pc = @ + 1 ])
       IN  IF Statement(frame) = "removeHandle" /\ pending # << >>
           THEN /\ running' = Append(after, [ op |-> Head(pending), pc |-> 1 ])
                /\ pending' = Tail(pending)
           ELSE /\ running' = after
                /\ UNCHANGED pending

\* the running handler executes its next statement; after the last one
\* it returns
Step ==
    /\ running # << >>
    /\ LET frame == running[Len(running)]
           rest == SubSeq(running, 1, Len(running) - 1)
       IN  running' = IF frame.pc = Len(Statements(frame.op))
                      THEN rest
                      ELSE Append(rest, [ frame EXCEPT !.pc = @ + 1 ])
    /\ UNCHANGED pending

\* the next statement throws: nothing catches, the handler is left
Throw ==
    /\ running # << >>
    /\ Statement(running[Len(running)]) \in Throwing
    /\ running' = << >>
    /\ UNCHANGED pending

----------------------------------------------------------------------------
(* PathSection (src/client/sketchEditor/workspace/PathSection.ts) *)

VARIABLES
    section,    \* the PathSection: [offset, length] over the path SectionPoints
    query       \* the last getPointAt of the section: [offset, point], or Null

sectionVars == << section, query >>

\* the largest offset, length and distance a caller passes
MaxOffset == 14

\* the path the section is a window of: two straight curves, 6 and 8 long
SectionPoints == << <<0, 0>>, <<6, 0>>, <<6, 8>> >>

\* new PathSection(path, offset, length)
PathSection(offset, length) == [ offset |-> offset, length |-> length ]

\* PathSection.getPointAt(offset): this.path.getPointAt(offset + this.offset)
SectionGetPointAt(this, offset) ==
    GetPointAt(SectionPoints, offset + this.offset, 1)

\* the point at the distance held within the length of the section
SectionGetPointAtClamped(this, offset) ==
    GetPointAt(SectionPoints, Min({ offset, this.length }) + this.offset, 1)

SectionInit ==
    /\ section = PathSection(0, PathLength(SectionPoints))
    /\ query = Null

NewPathSection(offset, length) ==
    /\ section' = PathSection(offset, length)
    /\ query' = Null

CallGetPointAt(offset) ==
    /\ query' = [ offset |-> offset, point |-> SectionGetPointAt(section, offset) ]
    /\ UNCHANGED section

----------------------------------------------------------------------------
(* Store (src/client/_common/Store.ts, src/unnamed/part_001) *)

VARIABLES
    build,      \* which of the two sources of Store is running
    state,      \* Store.state: [sketch, selection, editingItem]
    route,      \* the sketchId parameter of the router
    pauser,     \* the last value pausableBuffered got from events.app.resourcesReady
    buffer,     \* the number of initWorkspace messages pausableBuffered holds
    requests,   \* the sketch ids of the S3Access.getFile calls not yet answered
    events,     \* the event messages dispatched in the last step, in order
    thrown,     \* the last step ended in a TypeError
    message,    \* the action message of the last step: [type, sent, data]
    heard,      \* the channel messages delivered to subscribers of the Store
                \* in the last step
    inits       \* initWorkspace messages [received, handled] so far

storeVars == << build, state, route, pauser, buffer, requests, events, thrown,
                message, heard, inits >>

\* the number of initWorkspace actions dispatched
MaxInits == 2

\* the number of text blocks of a sketch
MaxBlocks == 1

Builds == { "Store.ts", "part_001" }

Undefined == "undefined"

\* no sketchId parameter in the route
NoRoute == 0

BlockIds == 1..MaxBlocks

\* the ids that messages name; an id may be the id of no text block
ItemIds == { 1, 2 }

\* references to workspace objects: all of them text blocks
Items == { [ itemId |-> b, itemType |-> "TextBlock" ] : b \in ItemIds }

DefaultBackground == "#f6f3eb"

\* a message on a channel
Msg(channel, type) == [ channel |-> channel, type |-> type ]

\* the topics setupSubscriptions subscribes to
Subscriptions(b) ==
    { Msg("actions", t) :
        t \in { "app.initWorkspace", "app.loadFont", "designer.zoomToFit",
                "designer.exportPNG", "designer.exportSVG", "designer.viewChanged",
                "sketch.create", "sketch.attrUpdate", "sketch.setSelection",
                "textblock.add", "textblock.updateAttr", "textblock.remove",
                "textblock.updateArrange" }
              \cup (IF b = "Store.ts" THEN { "sketch.setEditingItem" }
                                      ELSE { "designer.updateSnapshot" }) }
        \cup { Msg("events", "app.resourcesReady") }

\* the run of a handler: the state it works on and what it has dispatched
Begin ==
    [ state |-> state, route |-> route, requests |-> requests,
      events |-> << >>, thrown |-> FALSE ]

\* topic.dispatch(data) on the Events channel
Emit(w, type, data) ==
    [ w EXCEPT !.events = Append(@, [ type |-> type, data |-> data ]) ]

\* the ids a newid() can give: one that is not in use
NewSketchId(w) == IF w.state.sketch # Null /\ w.state.sketch.id = 1 THEN 2 ELSE 1

NewBlockId(blocks) == Min(BlockIds \ Range(blocks))

\* createSketch()
CreateSketch(w) ==
    [ id |-> NewSketchId(w), backgroundColor |-> Undefined, textBlocks |-> << >> ]

\* assign(dest, source): _.merge, which skips what is undefined in source
Assign(sketch, patch) ==
    IF patch.backgroundColor = Undefined THEN sketch
    ELSE [ sketch EXCEPT !.backgroundColor = patch.backgroundColor ]

RECURSIVE EmitLoaded(_, _)
\* events.textblock.loaded for each text block, in order
EmitLoaded(w, blocks) ==
    IF blocks = << >> THEN w
    ELSE EmitLoaded(Emit(w, "textblock.loaded", Head(blocks)), Tail(blocks))

\* loadSketch(sketch)
LoadSketch(w, sketch) ==
    Emit(EmitLoaded(Emit([ w EXCEPT !.state.sketch = sketch, !.route = sketch.id ],
                         "sketch.loaded", sketch.id),
                    sketch.textBlocks),
         "designer.zoomToFitRequested", Undefined)

\* what an event about the sketch carries: the sketch, named by its id
SketchOf(w) == IF w.state.sketch = Null THEN Undefined ELSE w.state.sketch.id

\* changedSketch()
ChangedSketch(w) == Emit(w, "sketch.contentChanged", SketchOf(w))

\* setSelection(item) with no early exit
SetSelectionAlways(w, item) ==
    IF w.thrown THEN w
    ELSE Emit([ w EXCEPT !.state.selection = item ],
              "sketch.selectionChanged", item)

\* setSelection(item)
SetSelection(w, item) ==
    IF w.thrown THEN w
    ELSE IF item # Null /\ w.state.selection # Null
               /\ w.state.selection.itemId = item.itemId THEN w
    ELSE IF item = Null /\ w.state.selection = Null THEN w
    ELSE Emit([ w EXCEPT !.state.selection = item ],
              "sketch.selectionChanged", item)

\* setEditingItem(item); getBlock reads state.sketch.textBlocks and throws
\* a TypeError when no sketch is loaded
SetEditingItem(w, item) ==
    IF w.thrown THEN w
    ELSE IF item # Null /\ w.state.editingItem # Null
               /\ w.state.editingItem.itemId = item.itemId THEN w
    ELSE IF item = Null /\ w.state.editingItem = Null THEN w
    ELSE IF w.state.editingItem # Null /\ w.state.sketch = Null
         THEN [ w EXCEPT !.thrown = TRUE ]
    ELSE With(IF w.state.editingItem # Null
                 /\ w.state.editingItem.itemId \in Range(w.state.sketch.textBlocks)
              THEN Emit(w, "textblock.editorClosed", w.state.editingItem.itemId)
              ELSE w,
              LAMBDA closed :
        With(IF item # Null THEN SetSelection(closed, item) ELSE closed,
             LAMBDA selected :
                 Emit([ selected EXCEPT !.state.editingItem = item ],
                      "sketch.editingItemChanged", item)))

\* the subscriber of initWorkspace, behind the buffer
OnInitWorkspace(w) ==
    IF w.thrown THEN w
    ELSE IF w.route # NoRoute
         THEN [ w EXCEPT !.requests = Append(@, w.route) ]
         ELSE LoadSketch(w, CreateSketch(w))

RECURSIVE Drain(_, _)
\* the buffered messages are handed to the subscriber one after the other
Drain(w, n) == IF n = 0 THEN w ELSE Drain(OnInitWorkspace(w), n - 1)

\* exportPNG, exportSVG
OnExport(w, requested) ==
    With(SetEditingItem(SetSelection(w, Null), Null), LAMBDA cleared :
        IF cleared.thrown THEN cleared ELSE Emit(cleared, requested, Undefined))

\* sketch.create: the patch is the data object of the message itself
Patched(data) ==
    IF data = Null THEN [ backgroundColor |-> DefaultBackground ]
    ELSE [ data EXCEPT !.backgroundColor =
             IF @ = Undefined THEN DefaultBackground ELSE @ ]

OnSketchCreate(w, data) ==
    With(SetEditingItem(LoadSketch(w, Assign(CreateSketch(w), Patched(data))),
                        Null),
         LAMBDA loaded :
             [ run |-> IF loaded.thrown THEN loaded ELSE ChangedSketch(loaded),
               data |-> IF data = Null THEN data ELSE Patched(data) ])

\* sketch.attrUpdate; with no sketch loaded _.merge has nothing to merge into
OnAttrUpdate(w, data) ==
    IF w.state.sketch = Null
    THEN ChangedSketch(Emit(w, "sketch.attrChanged", Undefined))
    ELSE ChangedSketch(Emit([ w EXCEPT !.state.sketch = Assign(@, data) ],
                            "sketch.attrChanged", w.state.sketch.id))

\* sketch.setSelection: part_001 makes the selection the editing item too
OnSetSelection(b, w, item) ==
    IF b = "Store.ts" THEN SetSelection(w, item)
    ELSE SetEditingItem(SetSelection(w, item), item)

\* textBlock.add
OnTextBlockAdd(w, data) ==
    With(SetEditingItem(w, Null), LAMBDA closed :
        IF closed.thrown \/ data.text = "" THEN closed
        ELSE IF closed.state.sketch = Null THEN [ closed EXCEPT !.thrown = TRUE ]
        ELSE With(NewBlockId(closed.state.sketch.textBlocks), LAMBDA id :
                 ChangedSketch(Emit([ closed EXCEPT !.state.sketch.textBlocks =
                                                        Append(@, id) ],
                                    "textblock.added", id))))

\* textBlock.updateAttr, textBlock.updateArrange: the block, if there is
\* one, is changed and the change is announced
OnTextBlockUpdate(w, id, changed) ==
    IF w.state.sketch = Null THEN [ w EXCEPT !.thrown = TRUE ]
    ELSE IF id \notin Range(w.state.sketch.textBlocks) THEN w
    ELSE ChangedSketch(Emit(w, changed, id))

\* textBlock.remove
OnTextBlockRemove(w, id) ==
    IF w.state.sketch = Null THEN [ w EXCEPT !.thrown = TRUE ]
    ELSE IF id \notin Range(w.state.sketch.textBlocks) THEN w
    ELSE SetEditingItem(
             ChangedSketch(
                 Emit([ w EXCEPT !.state.sketch.textBlocks =
                                     SelectSeq(@, LAMBDA tb : tb # id) ],
                      "textblock.removed", id)),
             Null)

\* the Store after its constructor, with the route the page was opened
\* at: nothing loaded, the buffer paused
StoreInit(b, sketchId) ==
    /\ build = b
    /\ state = [ sketch |-> Null, selection |-> Null, editingItem |-> Null ]
    /\ route = sketchId
    /\ pauser = FALSE
    /\ buffer = 0
    /\ requests = << >>
    /\ events = << >>
    /\ thrown = FALSE
    /\ message = Null
    /\ heard = << >>
    /\ inits = [ received |-> 0, handled |-> 0 ]

\* a step of the Store ends: w is the run of its handlers
Finished(w, hears, msg) ==
    /\ state' = w.state
    /\ route' = w.route
    /\ requests' = w.requests
    /\ events' = w.events
    /\ thrown' = w.thrown
    /\ heard' = hears
    /\ message' = msg
    /\ UNCHANGED build

\* an action message the Store subscribes to is dispatched and handled
Received(type, sent, data, w) ==
    /\ Msg("actions", type) \in Subscriptions(build)
    /\ Finished(w, << Msg("actions", type) >>,
                [ type |-> type, sent |-> sent, data |-> data ])
    /\ UNCHANGED << pauser, buffer, inits >>

\* actions.app.initWorkspace handled at once, with no buffer
InitWorkspaceUnbuffered ==
    /\ inits.received < MaxInits
    /\ \E w \in { OnInitWorkspace(Begin) } :
          Finished(w, << Msg("actions", "app.initWorkspace") >>,
                   [ type |-> "app.initWorkspace", sent |-> Undefined,
                     data |-> Undefined ])
    /\ inits' = [ received |-> inits.received + 1, handled |-> inits.handled + 1 ]
    /\ UNCHANGED << pauser, buffer >>

\* actions.app.initWorkspace: held back while the pauser is false
InitWorkspace ==
    /\ inits.received < MaxInits
    /\ \E w \in { IF pauser THEN OnInitWorkspace(Begin) ELSE Begin } :
          Finished(w, << Msg("actions", "app.initWorkspace") >>,
                   [ type |-> "app.initWorkspace", sent |-> Undefined,
                     data |-> Undefined ])
    /\ buffer' = IF pauser THEN buffer ELSE buffer + 1
    /\ inits' = [ received |-> inits.received + 1,
                  handled |-> inits.handled + (IF pauser THEN 1 ELSE 0) ]
    /\ UNCHANGED pauser

\* the callback of loadResources: resourcesReady(true) is dispatched, the
\* pauser of the buffer hears it and the buffer is emptied
LoadResourcesDone ==
    /\ ~pauser
    /\ \E w \in { Drain(Emit(Begin, "app.resourcesReady", TRUE), buffer) } :
          Finished(w,
                   IF Msg("events", "app.resourcesReady") \in Subscriptions(build)
                   THEN << Msg("events", "app.resourcesReady") >> ELSE << >>,
                   Null)
    /\ pauser' = TRUE
    /\ buffer' = 0
    /\ inits' = [ inits EXCEPT !.handled = @ + buffer ]

\* S3Access.getFile(...).done(sketch): the sketch of the id asked for
GetFileDone(i, blocks) ==
    /\ i \in 1..Len(requests)
    /\ \E w \in { Emit(LoadSketch([ Begin EXCEPT !.requests =
                                       SubSeq(@, 1, i - 1) \o SubSeq(@, i + 1, Len(@)) ],
                                  [ id |-> requests[i],
                                    backgroundColor |-> Undefined,
                                    textBlocks |-> blocks ]),
                       "app.workspaceInitialized", requests[i]) } :
          Finished(w, << >>, Null)
    /\ UNCHANGED << pauser, buffer, inits >>

\* S3Access.getFile(...).fail(err)
GetFileFail(i) ==
    /\ i \in 1..Len(requests)
    /\ \E w \in { LoadSketch([ Begin EXCEPT !.requests =
                                  SubSeq(@, 1, i - 1) \o SubSeq(@, i + 1, Len(@)) ],
                             CreateSketch(Begin)) } :
          Finished(Emit(w, "app.workspaceInitialized", w.state.sketch.id),
                   << >>, Null)
    /\ UNCHANGED << pauser, buffer, inits >>

\* loadFont, updateSnapshot: nothing of the state is touched and nothing
\* is dispatched by the handler itself
PassedOn(type) == Received(type, Undefined, Undefined, Begin)

\* zoomToFit (forwarded) and viewChanged
Forwarded(type, event) ==
    Received(type, Undefined, Undefined, Emit(Begin, event, Undefined))

Export(type, requested) ==
    \E w \in { OnExport(Begin, requested) } :
        Received(type, Undefined, Undefined, w)

SketchCreate(data) ==
    \E done \in { OnSketchCreate(Begin, data) } :
        Received("sketch.create", data, done.data, done.run)

SketchAttrUpdate(data) ==
    \E w \in { OnAttrUpdate(Begin, data) } :
        Received("sketch.attrUpdate", data, data, w)

SketchSetEditingItem(item) ==
    \E w \in { SetEditingItem(Begin, item) } :
        Received("sketch.setEditingItem", item, item, w)

SketchSetSelection(item) ==
    \E w \in { OnSetSelection(build, Begin, item) } :
        Received("sketch.setSelection", item, item, w)

TextBlockAdd(data) ==
    /\ state.sketch # Null => Len(state.sketch.textBlocks) < MaxBlocks
    /\ \E w \in { OnTextBlockAdd(Begin, data) } :
          Received("textblock.add", data, data, w)

TextBlockUpdate(type, id, changed) ==
    \E w \in { OnTextBlockUpdate(Begin, id, changed) } :
        Received(type, [ id |-> id ], [ id |-> id ], w)

TextBlockRemove(id) ==
    \E w \in { OnTextBlockRemove(Begin, id) } :
        Received("textblock.remove", [ id |-> id ], [ id |-> id ], w)

----------------------------------------------------------------------------
(* ViewZoom: the zoom and the centre of the view of a project *)

VARIABLES
    view,              \* project.view: [zoom, center]
    minZoom,           \* _minZoom, Null while not set
    maxZoom,           \* _maxZoom, Null while not set
    mouseNativeStart,  \* _mouseNativeStart
    viewCenterStart,   \* _viewCenterStart
    didDrag,           \* the flag of the constructor's closure
    notices,           \* what the last call notified and emitted, in order
    called,            \* the last call: its name and its arguments
    calls              \* the number of calls so far

zoomVars == << view, minZoom, maxZoom, mouseNativeStart, viewCenterStart,
               didDrag, notices, called, calls >>

\* the number of calls and events
MaxCalls == 3

RECURSIVE Gcd(_, _)
Gcd(a, b) == IF b = 0 THEN a ELSE Gcd(b, a % b)

Abs(a) == IF a < 0 THEN -a ELSE a

\* numbers are fractions n/d in lowest terms with d > 0
Rat(n, d) ==
    With(Gcd(Abs(n), Abs(d)), LAMBDA g :
        IF d < 0 THEN << (-n) \div g, (-d) \div g >> ELSE << n \div g, d \div g >>)

Num(n) == << n, 1 >>

\* the terms are reduced before they are multiplied
Plus(a, b) ==
    With(Gcd(a[2], b[2]), LAMBDA g :
        Rat(a[1] * (b[2] \div g) + b[1] * (a[2] \div g), (a[2] \div g) * b[2]))
Negative(a) == << -a[1], a[2] >>
Minus(a, b) == Plus(a, Negative(b))
Times(a, b) ==
    With(Rat(a[1], b[2]), LAMBDA l :
        With(Rat(b[1], a[2]), LAMBDA r : << l[1] * r[1], l[2] * r[2] >>))
Over(a, b) == Times(a, Rat(b[2], b[1]))
Less(a, b) ==
    With(Gcd(a[2], b[2]), LAMBDA g :
        a[1] * (b[2] \div g) < b[1] * (a[2] \div g))

\* Math.min, Math.max
MathMin(a, b) == IF Less(b, a) THEN b ELSE a
MathMax(a, b) == IF Less(a, b) THEN b ELSE a

\* paper.Point: add, subtract, multiply by a number, divide by a number
PointOf(x, y) == << Num(x), Num(y) >>
Add(p, q) == << Plus(p[1], q[1]), Plus(p[2], q[2]) >>
Subtract(p, q) == << Minus(p[1], q[1]), Minus(p[2], q[2]) >>
Multiply(p, k) == << Times(p[1], k), Times(p[2], k) >>
Divide(p, k) == << Over(p[1], k), Over(p[2], k) >>

\* the zoom factor of one step of the wheel
Factor == Rat(11, 10)

\* view.viewSize: the size of the canvas element
ViewSize == PointOf(22, 22)

HalfViewSize == Divide(ViewSize, Num(2))

\* view.bounds: the rectangle of the project the view shows
ViewBounds(v) ==
    [ center |-> v.center, size |-> Divide(ViewSize, v.zoom) ]

\* view.viewToProject, view.projectToView
ViewToProject(v, p) == Add(v.center, Divide(Subtract(p, HalfViewSize), v.zoom))
ProjectToView(v, p) == Add(Multiply(Subtract(p, v.center), v.zoom), HalfViewSize)

\* the positions of the mouse on the canvas
MousePositions == { PointOf(0, 0), PointOf(22, 11) }

\* event.deltaY of the wheel
Deltas == { -1, 0, 1 }

\* the sizes handed to setZoomRange: [width, height]
ZoomSizes == { << 21, 21 >>, << 22, 22 >> }

\* the arrays handed to setZoomRange: empty, one size, two sizes
ZoomRanges ==
    { << >> } \cup { << a >> : a \in ZoomSizes }
              \cup { << a, b >> : a, b \in ZoomSizes }

\* the rectangles handed to zoomTo
ZoomRects ==
    { [ x |-> 0, y |-> 0, width |-> 0, height |-> 11 ],
      [ x |-> 0, y |-> 0, width |-> 44, height |-> 44 ] }

\* what project.hitTest finds under the mouse
Hits == { "nothing", "background", "item" }

Notify(v) == [ type |-> "viewChanged", bounds |-> ViewBounds(v) ]

\* a call ends
Called(op, args, v, said) ==
    /\ calls < MaxCalls
    /\ calls' = calls + 1
    /\ called' = [ op |-> op, args |-> args ]
    /\ view' = v
    /\ notices' = said

\* the constructor: the view of a new project shows the canvas unscaled
ZoomInit ==
    /\ view = [ zoom |-> Num(1), center |-> HalfViewSize ]
    /\ minZoom = Null
    /\ maxZoom = Null
    /\ mouseNativeStart = Null
    /\ viewCenterStart = Null
    /\ didDrag = FALSE
    /\ notices = << >>
    /\ called = [ op |-> "constructor", args |-> << >> ]
    /\ calls = 0

\* a && Math.min(...): undefined (Null) for a size that is missing
ZoomOfSize(v, size) ==
    IF size = Null THEN Null
    ELSE With(ViewBounds(v).size, LAMBDA bounds :
             MathMin(Over(bounds[2], Num(size[2])), Over(bounds[1], Num(size[1]))))

\* the test if (min), if (max): NaN (Null) and 0 are not set
Truthy(n) == n # Null /\ n[1] # 0

\* setZoomRange(range)
SetZoomRange(range) ==
    \E a \in { ZoomOfSize(view, IF Len(range) > 0 THEN range[1] ELSE Null) },
       b \in { ZoomOfSize(view, IF Len(range) > 1 THEN range[2] ELSE Null) } :
        \E min \in { IF a = Null \/ b = Null THEN Null ELSE MathMin(a, b) },
           max \in { IF a = Null \/ b = Null THEN Null ELSE MathMax(a, b) } :
            /\ minZoom' = IF Truthy(min) THEN min ELSE minZoom
            /\ maxZoom' = IF Truthy(max) THEN max ELSE maxZoom
            /\ Called("setZoomRange", range, view, << >>)
            /\ UNCHANGED << mouseNativeStart, viewCenterStart, didDrag >>

\* zoomTo(rect)
ZoomTo(rect) ==
    /\ IF rect.width = 0 \/ rect.height = 0
       THEN Called("zoomTo", rect, view, << >>)
       ELSE \E v \in { [ zoom |-> MathMin(Over(ViewSize[2], Num(rect.height)),
                                         Over(ViewSize[1], Num(rect.width))),
                         center |-> << Rat(2 * rect.x + rect.width, 2),
                                       Rat(2 * rect.y + rect.height, 2) >> ] } :
                Called("zoomTo", rect, v, << Notify(v) >>)
    /\ UNCHANGED << minZoom, maxZoom, mouseNativeStart, viewCenterStart, didDrag >>

\* the zoom between the limits that are set
Constrained(zoom, min, max) ==
    With(IF min # Null THEN MathMax(zoom, min) ELSE zoom, LAMBDA raised :
        IF max # Null THEN MathMin(raised, max) ELSE raised)

\* setZoomConstrained with no upper limit
SetZoomConstrainedNoMax(v, zoom, min, max) ==
    With(IF min # Null THEN MathMax(zoom, min) ELSE zoom, LAMBDA z :
        IF z # v.zoom
        THEN [ view |-> [ v EXCEPT !.zoom = z ], returned |-> z ]
        ELSE [ view |-> v, returned |-> Null ])

\* setZoomConstrained(zoom): the view it leaves and the value it returns
SetZoomConstrained(v, zoom, min, max) ==
    With(Constrained(zoom, min, max), LAMBDA z :
        IF z # v.zoom
        THEN [ view |-> [ v EXCEPT !.zoom = z ], returned |-> z ]
        ELSE [ view |-> v, returned |-> Null ])

\* the zoom changeZoomCentered asks for
Stepped(zoom, delta) ==
    IF delta < 0 THEN Times(zoom, Factor) ELSE Over(zoom, Factor)

\* changeZoomCentered(delta, mousePos), also the handler of the wheel
ChangeZoomCentered(delta, mousePos) ==
    /\ IF delta = 0
       THEN Called("changeZoomCentered", << delta, mousePos >>, view, << >>)
       ELSE \E viewPos \in { ViewToProject(view, mousePos) },
               set \in { SetZoomConstrained(view, Stepped(view.zoom, delta),
                                            minZoom, maxZoom) } :
            IF ~Truthy(set.returned)
            THEN Called("changeZoomCentered", << delta, mousePos >>,
                        set.view, << >>)
            ELSE \E offset \in
                     { Subtract(Subtract(viewPos,
                                         Multiply(Subtract(viewPos, view.center),
                                                  Over(view.zoom, set.returned))),
                                view.center) } :
                 \E v \in { [ set.view EXCEPT !.center = Add(@, offset) ] } :
                     Called("changeZoomCentered", << delta, mousePos >>,
                            v, << Notify(v) >>)
    /\ UNCHANGED << minZoom, maxZoom, mouseNativeStart, viewCenterStart, didDrag >>

\* the mouseDrag handler of the view: offset is the native mouse offset
MouseDrag(offset, hit) ==
    /\ IF viewCenterStart = Null
       THEN IF hit = "item"
            THEN /\ Called("mouseDrag", << offset, hit >>, view, << >>)
                 /\ UNCHANGED << mouseNativeStart, viewCenterStart, didDrag >>
            ELSE /\ viewCenterStart' = view.center
                 /\ mouseNativeStart' = offset
                 /\ Called("mouseDrag", << offset, hit >>, view,
                           << [ type |-> "mouseDragStart" ] >>)
                 /\ UNCHANGED didDrag
       ELSE /\ \E nativeDelta \in { Subtract(offset, mouseNativeStart) } :
                 Called("mouseDrag", << offset, hit >>,
                        [ view EXCEPT !.center =
                            ViewToProject(view,
                                Subtract(ProjectToView(view, viewCenterStart),
                                         nativeDelta)) ],
                        << >>)
            /\ didDrag' = TRUE
            /\ UNCHANGED << mouseNativeStart, viewCenterStart >>
    /\ UNCHANGED << minZoom, maxZoom >>

\* the mouseUp handler of the view
MouseUp ==
    /\ IF mouseNativeStart # Null
       THEN /\ mouseNativeStart' = Null
            /\ viewCenterStart' = Null
            /\ Called("mouseUp", << >>, view,
                      << [ type |-> "mouseDragEnd" ] >>
                          \o (IF didDrag THEN << Notify(view) >> ELSE << >>))
            /\ didDrag' = FALSE
       ELSE /\ Called("mouseUp", << >>, view, << >>)
            /\ UNCHANGED << mouseNativeStart, viewCenterStart, didDrag >>
    /\ UNCHANGED << minZoom, maxZoom >>

----------------------------------------------------------------------------
(* Specifications *)

\* everything is constructed and no event has arrived
Start ==
    Init /\ PassInit /\ SectionInit /\ ZoomInit /\ StoreInit("Store.ts", NoRoute)

\* the same with either source of the Store, opened with or without the
\* id of a sketch in the route
StoreStart ==
    /\ Init /\ PassInit /\ SectionInit /\ ZoomInit
    /\ \E b \in Builds, sketchId \in { NoRoute, 1 } : StoreInit(b, sketchId)

\* the variables a part of the program leaves alone
besidesPath == << passVars, sectionVars, storeVars, zoomVars >>
besidesPass == << vars, sectionVars, storeVars, zoomVars >>
besidesSection == << vars, passVars, storeVars, zoomVars >>
besidesStore == << vars, passVars, sectionVars, zoomVars >>
besidesZoom == << vars, passVars, sectionVars, storeVars >>

\* the handlers of the StretchyPath, each as one step
Next ==
    \/ \E value \in BOOLEAN :
          SetEditElementsVisibility(value) /\ UNCHANGED besidesPath
    \/ ArrangeContentsCall /\ UNCHANGED besidesPath
    \/ \E id \in Ids(outline), p \in Positions :
          OnChangeComplete(id, p) /\ UNCHANGED besidesPath
    \/ \E segment1 \in Ids(outline), p \in Grid :
          OnDragEnd(segment1, p) /\ UNCHANGED besidesPath

Spec == Start /\ [][Next]_vars

\* the handlers statement by statement
PassNext ==
    \/ \E op \in Triggers : Deliver(op) /\ UNCHANGED besidesPass
    \/ Dispatch /\ UNCHANGED besidesPass
    \/ Step /\ UNCHANGED besidesPass
    \/ Throw /\ UNCHANGED besidesPass

PassSpec == Start /\ [][PassNext]_passVars

\* sections made and asked for points
SectionNext ==
    \/ \E offset \in 0..MaxOffset, length \in 0..MaxOffset :
          NewPathSection(offset, length) /\ UNCHANGED besidesSection
    \/ \E offset \in 0..MaxOffset :
          CallGetPointAt(offset) /\ UNCHANGED besidesSection

SectionSpec == Start /\ [][SectionNext]_sectionVars

\* the data of the action messages; Null is a message without data
CreateData ==
    { Null, [ backgroundColor |-> Undefined ], [ backgroundColor |-> "white" ] }

AttrData == { [ backgroundColor |-> Undefined ], [ backgroundColor |-> "white" ] }

AddData == { [ text |-> "" ], [ text |-> "a" ] }

\* the messages and callbacks that reach the Store
StoreNext ==
    \/ InitWorkspace /\ UNCHANGED besidesStore
    \/ LoadResourcesDone /\ UNCHANGED besidesStore
    \/ \E i \in 1..MaxInits, blocks \in { << >>, << 1 >> } :
          GetFileDone(i, blocks) /\ UNCHANGED besidesStore
    \/ \E i \in 1..MaxInits : GetFileFail(i) /\ UNCHANGED besidesStore
    \/ \E type \in { "app.loadFont", "designer.updateSnapshot" } :
          PassedOn(type) /\ UNCHANGED besidesStore
    \/ Forwarded("designer.zoomToFit", "designer.zoomToFitRequested")
          /\ UNCHANGED besidesStore
    \/ Forwarded("designer.viewChanged", "designer.viewChanged")
          /\ UNCHANGED besidesStore
    \/ Export("designer.exportPNG", "designer.exportPNGRequested")
          /\ UNCHANGED besidesStore
    \/ Export("designer.exportSVG", "designer.exportSVGRequested")
          /\ UNCHANGED besidesStore
    \/ \E data \in CreateData : SketchCreate(data) /\ UNCHANGED besidesStore
    \/ \E data \in AttrData : SketchAttrUpdate(data) /\ UNCHANGED besidesStore
    \/ \E item \in Items \cup { Null } :
          SketchSetEditingItem(item) /\ UNCHANGED besidesStore
    \/ \E item \in Items \cup { Null } :
          SketchSetSelection(item) /\ UNCHANGED besidesStore
    \/ \E data \in AddData : TextBlockAdd(data) /\ UNCHANGED besidesStore
    \/ \E id \in ItemIds :
          TextBlockUpdate("textblock.updateAttr", id, "textblock.attrChanged")
              /\ UNCHANGED besidesStore
    \/ \E id \in ItemIds :
          TextBlockUpdate("textblock.updateArrange", id, "textblock.arrangeChanged")
              /\ UNCHANGED besidesStore
    \/ \E id \in ItemIds : TextBlockRemove(id) /\ UNCHANGED besidesStore

StoreSpec == StoreStart /\ [][StoreNext]_storeVars

\* the calls of a ViewZoom and the events of its view
ZoomNext ==
    \/ \E range \in ZoomRanges : SetZoomRange(range) /\ UNCHANGED besidesZoom
    \/ \E rect \in ZoomRects : ZoomTo(rect) /\ UNCHANGED besidesZoom
    \/ \E delta \in Deltas, mousePos \in MousePositions :
          ChangeZoomCentered(delta, mousePos) /\ UNCHANGED besidesZoom
    \/ \E offset \in MousePositions, hit \in Hits :
          MouseDrag(offset, hit) /\ UNCHANGED besidesZoom
    \/ MouseUp /\ UNCHANGED besidesZoom

ZoomSpec == Start /\ [][ZoomNext]_zoomVars

----------------------------------------------------------------------------
(* Notions the properties are stated in *)

\* the decomposition of the current outline
Sides == GetOutlineSides(outline, corners)

\* the sides put one after the other, the vertex shared by two
\* neighbouring sides taken once
RECURSIVE Joined(_)
Joined(sides) ==
    IF Len(sides) = 0 THEN << >>
    ELSE IF Len(sides) = 1 THEN sides[1]
    ELSE sides[1] \o Tail(Joined(Tail(sides)))

\* each side starts with the vertex that ended the previous one
Chained(sides) ==
    \A k \in 2..Len(sides) : sides[k][1] = sides[k - 1][Len(sides[k - 1])]

\* the point of the k-th corner
CornerPoint(k) == SegmentOf(outline, corners[k]).point

\* the curves of the outline between corner 0 and corner 1 (top) and between
\* corner 2 and corner 3 (bottom), each named by the id of its segment1
TopBottomCurves ==
    { outline[i].id : i \in { j \in 1..Len(outline) :
          \/ IndexOf(outline, corners[1]) <= j /\ j < IndexOf(outline, corners[2])
          \/ IndexOf(outline, corners[3]) <= j /\ j < IndexOf(outline, corners[4]) } }

\* the children of the group of one kind
ChildrenOfKind(kind) ==
    { i \in 1..Len(children) : children[i].kind = kind }

\* the vertices that are not corners
ExtraVertices == { i \in 1..Len(outline) : outline[i].id \notin Range(corners) }

\* the handler that ran last was started by an edit of the outline
EditRan == lastOp \in { "onChangeComplete", "onDragEnd" }

\* the display artwork is whole: one point for every anchor of the source
Complete(path) ==
    /\ Len(path.pts) = Len(sourcePath)
    /\ \A i \in 1..Len(path.pts) : path.pts[i] # Null

----------------------------------------------------------------------------
(* C1 *)

\* C1: for every outline whose 4 corners are vertices of the closed outline
\* in contour order, getOutlineSides returns exactly 4 sides, each starting
\* with the vertex that ended the previous one, and the sides put together
\* are the vertex sequence of the outline from segment 0 round to segment 0.
C1_SidesRebuildOutline ==
    /\ Sides.status = "ok"
    /\ Len(Sides.sides) = 4
    /\ Chained(Sides.sides)
    /\ Joined(Sides.sides) = Append(outline, outline[1])

----------------------------------------------------------------------------
(* C2 *)

DecompositionFailed(r) == r \in { "failed to get sides", "TypeError" }

\* C2: when getOutlineSides throws in a pass, displayPath after the pass is
\* the artwork it was before the pass, and it is still a child of the group.
C2_FailedPassKeepsDisplay ==
    [][ DecompositionFailed(result') =>
          /\ displayPath' = displayPath
          /\ Item("displayPath", displayPath.id) \in Range(children') ]_vars

C2_Witness ==
    /\ lastOp = "onChangeComplete"
    /\ DecompositionFailed(result)
    /\ Complete(displayPath)

----------------------------------------------------------------------------
(* C3 *)

\* C3: after any sequence of handlers there are exactly 4 corners, they are
\* the 4 segments tagged at construction and they are vertices of the
\* outline; all other vertices of the outline are additions.
C3_FourCornersKept ==
    /\ Len(corners) = 4
    /\ corners = CornersOf(CreateOutline(sourcePath))
    /\ Cardinality(Range(corners)) = 4
    /\ Range(corners) \subseteq Ids(outline)
    /\ Cardinality(Ids(outline)) = Len(outline)
    /\ Len(outline) = 4 + Cardinality(ExtraVertices)

C3_Witness ==
    /\ Len(outline) = 4 + MaxExtra
    /\ lastOp = "onChangeComplete"
    /\ \E k \in 1..4 : CornerPoint(k) # CreateOutline(sourcePath)[k].point

----------------------------------------------------------------------------
(* C4 *)

\* C4: arrangeContents() called with no edit of the outline before it
\* leaves the points of the display artwork as they were, and changes
\* neither the vertices of the outline nor the corners: the display artwork
\* of a pass depends on the source artwork, the outline and the corners only.
C4_ArrangeTwiceSame ==
    [][ lastOp' = "arrangeContents" =>
          /\ displayPath'.pts = displayPath.pts
          /\ outline' = outline
          /\ corners' = corners ]_vars

C4_Witness ==
    /\ lastOp = "arrangeContents"
    /\ result = "ok"
    /\ Len(outline) > 4
    /\ \E k \in 1..4 : CornerPoint(k) # CreateOutline(sourcePath)[k].point

----------------------------------------------------------------------------
(* C5 *)

\* C5: every pass that an edit starts and that succeeds puts the new display
\* artwork in place and after that emits a "rearranged" notification.
C5_SuccessfulPassNotifies ==
    (EditRan /\ result = "ok") =>
        \E i, j \in 1..Len(log) :
            /\ i < j
            /\ log[i] = "insertDisplay"
            /\ log[j] = "rearranged"

----------------------------------------------------------------------------
(* C6 *)

\* C6: between handlers the group has exactly one display artwork among its
\* children, it is displayPath and it is whole; a pass that succeeds puts a
\* new artwork object in place of the old one, and an artwork object that
\* stays has its points left alone.
C6_OneWholeDisplay ==
    /\ [](/\ Cardinality(ChildrenOfKind("displayPath")) = 1
          /\ Item("displayPath", displayPath.id) \in Range(children)
          /\ Complete(displayPath))
    /\ [][ /\ result' = "ok" => displayPath'.id # displayPath.id
           /\ displayPath'.id = displayPath.id => displayPath' = displayPath ]_vars

C6_Witness ==
    /\ EditRan
    /\ result = "ok"
    /\ displayPath.pts # [ i \in 1..Len(sourcePath) |-> Scaled(sourcePath[i]) ]

----------------------------------------------------------------------------
(* C7 *)

\* C7: setEditElementsVisibility (onOverStart, onOverEnd) starts no pass and
\* leaves the outline, the corners, the source artwork, the display artwork,
\* the children of the group and the midpoint handles as they are.
C7_HoverOnlyVisibility ==
    [][ lastOp' = "setEditElementsVisibility" =>
          /\ UNCHANGED << outline, corners, sourcePath, displayPath, children >>
          /\ midpointGroup'.gen = midpointGroup.gen
          /\ midpointGroup'.handles = midpointGroup.handles
          /\ segmentGroup'.handles = segmentGroup.handles
          /\ "updateMidpiontMarkers" \notin Range(log')
          /\ "getOutlineSides" \notin Range(log') ]_vars

C7_Witness ==
    /\ lastOp = "setEditElementsVisibility"
    /\ segmentGroup.visible
    /\ strokeColor = "lightgray"
    /\ Len(outline) > 4

----------------------------------------------------------------------------
(* C8 *)

\* the vertex a split added
NewVertex(before, after) == CHOOSE id \in Ids(after) : id \notin Ids(before)

\* the segment1 of the curve that was split: the vertex before the new one
SplitSegment1(after, id) == after[IndexOf(after, id) - 1].id

\* C8: when the drag of a midpoint handle ends, the handler first gives the
\* new vertex a segment handle, then removes the midpoint handle, then runs
\* arrangeContents(); afterwards the midpoint group the handle was in is
\* gone, and the one midpoint group of the StretchyPath has a handle for
\* every top and bottom curve of the new outline and for no other curve.
C8_MidpointDragEnd ==
    [][ (lastOp' = "onDragEnd" /\ Len(outline') = Len(outline) + 1) =>
          /\ SubSeq(log', 1, 3)
               = << "newSegmentHandle", "removeHandle", "updateMidpiontMarkers" >>
          /\ log'[4] = "getOutlineSides"
          /\ NewVertex(outline, outline') \in SegmentHandles'
          /\ Item("midpointGroup", midpointGroup.gen) \notin Range(children')
          /\ midpointGroup'.gen # midpointGroup.gen
          /\ Cardinality(ChildrenOfKind("midpointGroup")') = 1
          /\ Item("midpointGroup", midpointGroup'.gen) \in Range(children')
          /\ midpointGroup'.handles = TopBottomCurves' ]_vars

C8_Witness ==
    /\ lastOp = "onDragEnd"
    /\ result = "ok"
    /\ Len(outline) = 4 + MaxExtra
    /\ midpointGroup.handles = TopBottomCurves
    /\ Cardinality(midpointGroup.handles) = 2 + MaxExtra

----------------------------------------------------------------------------
(* C9 *)

\* a vertex that is within tolerance of no corner
AwayFromCorners(point) == \A k \in 1..4 : ~IsClose(CornerPoint(k), point)

\* side b is side a with the vertex id put in
GainedVertex(a, b, id) ==
    /\ Len(b) = Len(a) + 1
    /\ SelectSeq(b, LAMBDA seg : seg.id # id) = a

\* C9: a vertex put in between two corners and within tolerance of no
\* corner leaves an outline that had 4 sides with 4 sides, moves no corner,
\* and adds one vertex to one side while the other sides stay as they are.
C9_InsertKeepsSides ==
    [][ ( /\ lastOp' = "onDragEnd"
          /\ Len(outline') = Len(outline) + 1
          /\ Sides.status = "ok"
          /\ AwayFromCorners(SegmentOf(outline', NewVertex(outline, outline')).point) )
        =>
          /\ Sides'.status = "ok"
          /\ Len(Sides'.sides) = 4
          /\ \A k \in 1..4 : CornerPoint(k)' = CornerPoint(k)
          /\ \E k \in 1..4 :
                /\ GainedVertex(Sides.sides[k], Sides'.sides[k],
                                NewVertex(outline, outline'))
                /\ \A j \in (1..4) \ { k } : Sides'.sides[j] = Sides.sides[j] ]_vars

C9_Witness ==
    /\ lastOp = "onDragEnd"
    /\ result = "ok"
    /\ \E i \in ExtraVertices : AwayFromCorners(outline[i].point)
    /\ Len(Sides.sides) = 4
    /\ Len(Sides.sides[1]) = 3

----------------------------------------------------------------------------
(* C10 *)

\* the anchor of the source artwork on the k-th corner of its bounds
SourceCorner(k) ==
    CHOOSE i \in 1..Len(sourcePath) : sourcePath[i] = Corners(Bounds(sourcePath))[k]

----------------------------------------------------------------------------
(* C11 *)

\* the source artwork as a display artwork would hold it
SourceAsDisplayed == [ i \in 1..Len(sourcePath) |-> Scaled(sourcePath[i]) ]

\* C11: while the outline is the rectangle createOutline made of the source
\* bounds, with no vertex moved or added, every anchor of the source artwork
\* is mapped to itself: the display artwork has the points of the source.
C11_UneditedFrameIdentity ==
    outline = CreateOutline(sourcePath) => displayPath.pts = SourceAsDisplayed

C11_Witness ==
    /\ lastOp = "arrangeContents"
    /\ result = "ok"
    /\ outline = CreateOutline(sourcePath)
    /\ displayPath.pts = SourceAsDisplayed
    /\ displayPath.pts[5] = Scaled(<< 3, 4 >>)

----------------------------------------------------------------------------
(* C12 *)

\* the four corners are at four different positions
DistinctCorners == Cardinality({ CornerPoint(k) : k \in 1..4 }) = 4

\* C12: an edit that would leave fewer than 4 distinct corner positions is
\* refused: after an edit the corners are at 4 distinct positions, or the
\* outline is as it was and no pass was started.
C12_FewerCornersRefused ==
    [][ (EditRan' /\ ~DistinctCorners') =>
          /\ outline' = outline
          /\ "updateMidpiontMarkers" \notin Range(log')
          /\ "getOutlineSides" \notin Range(log') ]_vars

----------------------------------------------------------------------------
(* C13 *)

\* the handler that ran last ran an arrangement pass
PassRan == lastOp \in { "arrangeContents", "onChangeComplete", "onDragEnd" }

ZeroLength(side) == PathLength(Points(side)) = 0

\* C13: a pass whose decomposition gives a top side or a bottom side of
\* length 0 ends in an error and leaves the display artwork as it was.
C13_ZeroLengthSideAborts ==
    [][ ( /\ PassRan'
          /\ Sides'.status = "ok"
          /\ ZeroLength(Sides'.sides[1]) \/ ZeroLength(Sides'.sides[3]) )
        =>
          /\ result' # "ok"
          /\ displayPath' = displayPath ]_vars

----------------------------------------------------------------------------
(* C14 *)

\* C14: after any sequence of handlers the points of the source artwork are
\* the points it had when the StretchyPath was constructed.
C14_SourceNeverChanges == sourcePath = SourcePoints

C14_Witness ==
    /\ lastOp = "onDragEnd"
    /\ result = "ok"
    /\ displayPath.pts # SourceAsDisplayed
    /\ sourcePath = SourcePoints

----------------------------------------------------------------------------
(* C19 *)

\* the corner the walk looks for while it collects its k-th side:
\* corners[1], corners[2], corners[3], corners[0]
TargetCorner(k) == CornerPoint((k % 4) + 1)

\* C19: the k-th side the walk closes ends at a vertex within tolerance of
\* the k-th corner of the queue, no vertex the walk compared with that
\* corner before is within tolerance of it, and the vertex that closes a
\* side closes no second one: the next side starts with it and ends later.
C19_CornersInQueueOrder ==
    /\ Len(Sides.sides) <= 4
    /\ Chained(Sides.sides)
    /\ \A k \in 1..Len(Sides.sides) :
          /\ Len(Sides.sides[k]) >= (IF k = 1 THEN 1 ELSE 2)
          /\ IsClose(TargetCorner(k), Sides.sides[k][Len(Sides.sides[k])].point)
          /\ \A i \in (IF k = 1 THEN 1 ELSE 2)..(Len(Sides.sides[k]) - 1) :
                ~IsClose(TargetCorner(k), Sides.sides[k][i].point)

C19_Witness ==
    /\ PassRan
    /\ Sides.status = "ok"
    /\ Len(Sides.sides[1]) >= 2
    /\ IsClose(TargetCorner(2), Sides.sides[1][1].point)
    /\ ~IsClose(TargetCorner(1), Sides.sides[1][1].point)

----------------------------------------------------------------------------
(* C15 *)

\* the frame is inside arrangeContents()
InPass(frame) == Statement(frame) \in Range(PassStatements)

\* the frames of the call stack that are inside arrangeContents()
Passes(stack) == { i \in 1..Len(stack) : InPass(stack[i]) }

----------------------------------------------------------------------------
(* C16 *)

\* the section is a window of the path
WithinPath(this) == this.offset + this.length <= PathLength(SectionPoints)

\* C16: getPointAt(d) of a section that is a window of its path is the
\* point of the path at d from the start of the section, and for a d
\* greater than the length of the section it is the point at the end of
\* the section.
C16_ClampedToSection ==
    (query # Null /\ WithinPath(section)) =>
        /\ query.point # Null
        /\ query.point = SectionGetPointAtClamped(section, query.offset)

----------------------------------------------------------------------------
(* C17 *)

\* C17: every message that reaches a subscriber of the Store is a message
\* of the Actions channel: the Store listens to no topic of the Events
\* channel.
C17_StoreHearsOnlyActions ==
    \A i \in 1..Len(heard) : heard[i].channel = "actions"

----------------------------------------------------------------------------
(* C18 *)

\* C18: after the Store has handled an action message, the data of the
\* message is what the sender dispatched; no field is added or changed.
C18_MessagesImmutable ==
    message # Null => message.data = message.sent

----------------------------------------------------------------------------
(* C20 *)

\* the topics of the events dispatched in the last step
EventTypes == { events[i].type : i \in 1..Len(events) }

\* the number of sketch.loaded events dispatched in the last step
LoadedEvents ==
    Cardinality({ i \in 1..Len(events) : events[i].type = "sketch.loaded" })

\* C20: as long as resourcesReady(true) has not been dispatched, every
\* initWorkspace received is held in the buffer, none is handled, and a
\* step that receives one loads no sketch and asks for none; the step that
\* dispatches resourcesReady(true) handles all the buffered ones after it,
\* each by loading a sketch or asking for one; afterwards every
\* initWorkspace is handled when it is received.
C20_InitWorkspaceWaitsForResources ==
    /\ [](/\ ~pauser => /\ inits.handled = 0
                        /\ buffer = inits.received
                        /\ requests = << >>
          /\ pauser => /\ buffer = 0
                       /\ inits.handled = inits.received)
    /\ [][ /\ (heard' = << Msg("actions", "app.initWorkspace") >> /\ ~pauser') =>
                /\ "sketch.loaded" \notin EventTypes'
                /\ events' = << >>
                /\ requests' = requests
                /\ state' = state
                /\ buffer' = buffer + 1
           /\ (~pauser /\ pauser') =>
                /\ events'[1] = [ type |-> "app.resourcesReady", data |-> TRUE ]
                /\ inits'.handled = inits.received
                /\ LoadedEvents' + Len(requests') = buffer ]_storeVars

C20_Witness ==
    /\ pauser
    /\ heard = << Msg("events", "app.resourcesReady") >>
    /\ inits.handled = MaxInits
    /\ LoadedEvents = 1
    /\ Len(requests) = MaxInits - 1

----------------------------------------------------------------------------
(* C21 *)

\* C21: in the Store of Store.ts the editing item is the selected item:
\* whenever state.editingItem is set, state.selection is set and has the
\* same itemId.
C21_EditingItemIsSelected ==
    (build = "Store.ts" /\ state.editingItem # Null) =>
        /\ state.selection # Null
        /\ state.selection.itemId = state.editingItem.itemId

----------------------------------------------------------------------------
(* C22 *)

\* two references name the same item, or both are null
SameItem(a, b) ==
    \/ a = Null /\ b = Null
    \/ a # Null /\ b # Null /\ a.itemId = b.itemId

\* the items of the events of a topic dispatched in the last step, in order
Carried(type) ==
    [ i \in 1..Cardinality({ j \in 1..Len(events) : events[j].type = type }) |->
        events[CHOOSE j \in 1..Len(events) :
                  /\ events[j].type = type
                  /\ Cardinality({ k \in 1..j : events[k].type = type }) = i].data ]

\* no item of the sequence is the item before it; first comes before all
NoRepeat(first, items) ==
    \A i \in 1..Len(items) :
        ~SameItem(IF i = 1 THEN first ELSE items[i - 1], items[i])

\* what a step did to one of the two references: its events carry, one
\* after the other, items that differ from the one before, and the
\* reference is the item of the last event
OnlyOnChange(before, after, items) ==
    /\ NoRepeat(before, items)
    /\ after = (IF items = << >> THEN before ELSE items[Len(items)])

\* the message asks for what the state holds already
NothingAsked(msg, held, b) ==
    IF msg = Null THEN FALSE
    ELSE IF msg.type = "sketch.setSelection"
         THEN /\ SameItem(msg.data, held.selection)
              /\ b = "part_001" => SameItem(msg.data, held.editingItem)
    ELSE IF msg.type = "sketch.setEditingItem"
         THEN SameItem(msg.data, held.editingItem)
    ELSE FALSE

\* C22: selectionChanged is dispatched only when the selection changes and
\* editingItemChanged only when the editing item changes: in every step the
\* events of either topic carry items that differ from the item before
\* (so no two consecutive events carry the same itemId or are both null)
\* and the state holds the item of the last event; a request that names
\* the item already selected (edited), or null when nothing is, changes no
\* state and dispatches no event.
C22_EventsOnlyOnChange ==
    [][ /\ OnlyOnChange(state.selection, state'.selection,
                        Carried("sketch.selectionChanged")')
        /\ OnlyOnChange(state.editingItem, state'.editingItem,
                        Carried("sketch.editingItemChanged")')
        /\ NothingAsked(message', state, build) =>
                (state' = state /\ events' = << >>) ]_storeVars

\* a request for the item already selected has been handled
C22_Witness ==
    /\ message # Null
    /\ message.type = "sketch.setSelection"
    /\ message.data # Null
    /\ state.selection # Null
    /\ state.selection.itemId = message.data.itemId
    /\ state.editingItem # Null
    /\ state.editingItem.itemId # message.data.itemId
    /\ events = << >>

----------------------------------------------------------------------------
(* C24 *)

\* C24: for every frame reached from construction by corner drags, drags of
\* inserted vertices and midpoint insertions, the walk of getOutlineSides
\* does not end with a number of sides other than 4: the branch that throws
\* 'failed to get sides' is taken neither for the current outline nor in
\* the pass that ran last.
C24_FailedToGetSidesNeverTaken ==
    /\ Sides.status # "failed to get sides"
    /\ result # "failed to get sides"

\* a corner has been dragged away and a vertex inserted: the walk
\* matches the four corners
C24_Witness ==
    /\ EditRan
    /\ ExtraVertices # {}
    /\ CornerPoint(2) # <<6, 0>>
    /\ Sides.status = "ok"
    /\ Len(Sides.sides) = 4

----------------------------------------------------------------------------
(* C25 *)

\* C25: getOutlineSides never reads a target corner after the corner queue
\* is exhausted: for every reachable frame the walk ends without a
\* TypeError.
C25_QueueNeverReadWhenEmpty == Sides.status # "TypeError"

----------------------------------------------------------------------------
(* C26 *)

\* C26: a pass keeps the edit affordances hidden: when the corner handles
\* and the midpoint handles are hidden before arrangeContents() runs, the
\* midpoint handle group the pass rebuilds is hidden after it.
C26_PassKeepsHandlesHidden ==
    [][ (/\ ~segmentGroup.visible
         /\ ~midpointGroup.visible
         /\ "updateMidpiontMarkers" \in Range(log')) =>
            ~midpointGroup'.visible ]_vars

----------------------------------------------------------------------------
(* C23 *)

\* the viewChanged notifications of the last call
ViewChangedNotices ==
    { i \in 1..Len(notices) : notices[i].type = "viewChanged" }

\* C23: every change of the zoom made by changeZoomCentered leaves
\* view.zoom not below minZoom and not above maxZoom when these are set;
\* when delta is 0 or the constrained zoom is the current zoom, the call
\* leaves the zoom and the centre of the view as they are and does not
\* notify viewChanged.
C23_ZoomWithinLimits ==
    [][ called'.op = "changeZoomCentered" =>
          /\ view'.zoom # view.zoom =>
                /\ minZoom # Null => ~Less(view'.zoom, minZoom)
                /\ maxZoom # Null => ~Less(maxZoom, view'.zoom)
          /\ (\/ called'.args[1] = 0
              \/ Constrained(Stepped(view.zoom, called'.args[1]),
                             minZoom, maxZoom) = view.zoom) =>
                /\ view' = view
                /\ ViewChangedNotices' = {} ]_zoomVars

\* a step of the wheel has taken the zoom up to the upper limit, short of
\* the factor, and moved the centre
C23_Witness ==
    /\ called.op = "changeZoomCentered"
    /\ called.args[1] < 0
    /\ minZoom # Null
    /\ view.zoom = maxZoom
    /\ view.center # HalfViewSize
    /\ ViewChangedNotices # {}

====
